---------------------------- MODULE Spec2Model ----------------------------
(***************************************************************************)
(* Model of the client-side graph engine of Graph_Pivot: the React         *)
(* GraphView component (seed layout, one-shot force refinement, LOD        *)
(* controller, local snapshot and mutation synchronizer).                  *)
(*                                                                         *)
(* Strings stand for JavaScript strings, "" for a missing/falsy string,    *)
(* NoGraph for a null KnowledgeGraph.  Coordinates are kept in             *)
(* thousandths (Scale) so that the jitter of hashOffset stays an integer.  *)
(* Zoom scales are kept in hundredths (0.5 is 50).                         *)
(***************************************************************************)
EXTENDS Integers, Sequences, FiniteSets, TLC

-----------------------------------------------------------------------------
(* Generic helpers over sequences (Array.prototype.map/filter/find).        *)

Range(s) == { s[i] : i \in 1..Len(s) }

Max(a, b) == IF a >= b THEN a ELSE b

Min(a, b) == IF a <= b THEN a ELSE b

FilterSeq(s, keep) == SelectSeq(s, LAMBDA x : x \in keep)

(* Math.ceil(Math.sqrt(n)) for a natural n.                                 *)
CeilSqrt(n) == CHOOSE k \in 0..n : k * k >= n /\ (k = 0 \/ (k - 1) * (k - 1) < n)

(* Math.ceil(a / b) for naturals, b > 0.                                    *)
CeilDiv(a, b) == (a + b - 1) \div b

(* JavaScript's % : the remainder takes the sign of the dividend.           *)
JsRem(a, m) == IF a >= 0 THEN a % m ELSE -((-a) % m)

(* hash = (hash << 5) - hash + code; hash |= 0 : the signed 32-bit wrap of   *)
(* 31 * hash + code.  The model checker's integers are 32 bits wide, so the *)
(* product is formed on the two 16-bit halves of hash.                      *)
HashStep(hash, code) ==
    LET hi == hash \div 65536
        lo == hash % 65536
        t == 31 * lo + code
        hi2 == ((31 * hi + (t \div 65536) + 32768) % 65536) - 32768
    IN  hi2 * 65536 + (t % 65536)

-----------------------------------------------------------------------------
(* The graph data shape.                                                    *)

NoGraph == [chapter_id |-> "", nodes |-> <<>>, edges |-> <<>>, isNull |-> TRUE]

KG(c, ns, es) == [chapter_id |-> c, nodes |-> ns, edges |-> es, isNull |-> FALSE]

Node(i, n, t) == [id |-> i, name |-> n, type |-> t]

Edge(i, s, t, ev) == [id |-> i, source |-> s, target |-> t, evidence |-> ev]

NodeIds(nodes) == { nodes[i].id : i \in 1..Len(nodes) }

NodeNames(nodes) == { nodes[i].name : i \in 1..Len(nodes) }

(* nodes.find((n) => n.id === id): index of the first match, 0 if none.    *)
FindById(nodes, id) ==
    IF \E i \in 1..Len(nodes) : nodes[i].id = id
    THEN CHOOSE i \in 1..Len(nodes) :
            nodes[i].id = id /\ \A j \in 1..(i - 1) : nodes[j].id # id
    ELSE 0

(* nodes.find((n) => n.name === name)?.id || name                          *)
FindIdByName(nodes, name) ==
    IF \E i \in 1..Len(nodes) : nodes[i].name = name
    THEN LET i == CHOOSE k \in 1..Len(nodes) :
                     nodes[k].name = name /\ \A j \in 1..(k - 1) : nodes[j].name # name
         IN  IF nodes[i].id # "" THEN nodes[i].id ELSE name
    ELSE name

(* new Map(nodes.map(n => [n.name, n.id])).get(name) || name : a later     *)
(* entry of the same name overwrites an earlier one.                        *)
NameToId(nodes, name) ==
    IF \E i \in 1..Len(nodes) : nodes[i].name = name
    THEN LET i == CHOOSE k \in 1..Len(nodes) :
                     nodes[k].name = name /\ \A j \in (k + 1)..Len(nodes) : nodes[j].name # name
         IN  IF nodes[i].id # "" THEN nodes[i].id ELSE name
    ELSE name

-----------------------------------------------------------------------------
(* Seed Layout: hashOffset and buildClusterGrid.                            *)

Scale == 1000

boardCapacity == 1000

boardCell == 140

boardSize == CeilSqrt(boardCapacity) * boardCell

padding == 80

(* The UTF-16 code units of the node ids the model uses (charCodeAt).       *)
(* The ids "g01" .. "g90" of the nodes of larger chapter graphs.            *)
GridIds ==
    << "g01", "g02", "g03", "g04", "g05", "g06", "g07", "g08", "g09", "g10",
       "g11", "g12", "g13", "g14", "g15", "g16", "g17", "g18", "g19", "g20",
       "g21", "g22", "g23", "g24", "g25", "g26", "g27", "g28", "g29", "g30",
       "g31", "g32", "g33", "g34", "g35", "g36", "g37", "g38", "g39", "g40",
       "g41", "g42", "g43", "g44", "g45", "g46", "g47", "g48", "g49", "g50",
       "g51", "g52", "g53", "g54", "g55", "g56", "g57", "g58", "g59", "g60",
       "g61", "g62", "g63", "g64", "g65", "g66", "g67", "g68", "g69", "g70",
       "g71", "g72", "g73", "g74", "g75", "g76", "g77", "g78", "g79", "g80",
       "g81", "g82", "g83", "g84", "g85", "g86", "g87", "g88", "g89", "g90" >>

IdCodes(id) ==
    CASE id = "n1" -> <<110, 49>>
      [] id = "n2" -> <<110, 50>>
      [] id = "n3" -> <<110, 51>>
      [] id = "m1" -> <<109, 49>>
      [] id = "m2" -> <<109, 50>>
      [] id = "x1" -> <<120, 49>>
      [] id = "x2" -> <<120, 50>>
      [] id = "x3" -> <<120, 51>>
      [] id \in Range(GridIds) ->
            LET k == CHOOSE j \in 1..Len(GridIds) : GridIds[j] = id
            IN  <<103, 48 + (k \div 10), 48 + (k % 10)>>
      [] OTHER -> <<>>

(* The 32-bit accumulator of hashOffset after the loop over the code units. *)
RECURSIVE HashAcc(_, _)
HashAcc(codes, hash) ==
    IF codes = <<>> THEN hash
    ELSE HashAcc(Tail(codes), HashStep(hash, Head(codes)))

(* ((hash % 1000) / 1000) * 2 - 1, in thousandths.                          *)
hashOffset(codes) == JsRem(HashAcc(codes, 0), 1000) * 2 - Scale

(* Set.prototype.add on an insertion-ordered set kept as a sequence.        *)
SetAdd(s, x) == IF x \in Range(s) THEN s ELSE Append(s, x)

(* kg.edges.forEach(...) of buildClusterGrid: the adjacency map.            *)
RECURSIVE BuildAdjacency(_, _, _)
BuildAdjacency(nodes, edges, adj) ==
    IF edges = <<>> THEN adj
    ELSE LET sourceId == FindIdByName(nodes, Head(edges).source)
             targetId == FindIdByName(nodes, Head(edges).target)
         IN  IF sourceId \notin NodeIds(nodes) \/ targetId \notin NodeIds(nodes)
             THEN BuildAdjacency(nodes, Tail(edges), adj)
             ELSE LET a1 == [adj EXCEPT ![sourceId] = SetAdd(@, targetId)]
                      a2 == [a1 EXCEPT ![targetId] = SetAdd(@, sourceId)]
                  IN  BuildAdjacency(nodes, Tail(edges), a2)

(* adjacency.get(current).forEach: mark and push every unvisited neighbor.  *)
RECURSIVE PushNeighbors(_, _, _)
PushNeighbors(neighbors, stack, visited) ==
    IF neighbors = <<>> THEN [stack |-> stack, visited |-> visited]
    ELSE IF Head(neighbors) \in visited
         THEN PushNeighbors(Tail(neighbors), stack, visited)
         ELSE PushNeighbors(Tail(neighbors), Append(stack, Head(neighbors)),
                            visited \cup {Head(neighbors)})

(* while (stack.length) { current = stack.pop(); ... }                      *)
RECURSIVE WalkStack(_, _, _, _)
WalkStack(adj, stack, visited, clusterIds) ==
    IF stack = <<>> THEN [visited |-> visited, clusterIds |-> clusterIds]
    ELSE LET current == stack[Len(stack)]
             popped == SubSeq(stack, 1, Len(stack) - 1)
             r == PushNeighbors(adj[current], popped, visited)
         IN  WalkStack(adj, r.stack, r.visited, Append(clusterIds, current))

(* for (const node of kg.nodes) { if (visited.has(node.id)) continue; ... } *)
RECURSIVE CollectClusters(_, _, _, _, _)
CollectClusters(nodes, rest, adj, visited, clusters) ==
    IF rest = <<>> THEN clusters
    ELSE IF Head(rest).id \in visited
         THEN CollectClusters(nodes, Tail(rest), adj, visited, clusters)
         ELSE LET r == WalkStack(adj, <<Head(rest).id>>, visited \cup {Head(rest).id}, <<>>)
                  group == FilterSeq(nodes, { n \in Range(nodes) : n.id \in Range(r.clusterIds) })
              IN  CollectClusters(nodes, Tail(rest), adj, r.visited, Append(clusters, group))

(* The clustering step of buildClusterGrid: the list of clusters, each the  *)
(* list of its nodes in kg.nodes order.                                     *)
ClusterList(kg) ==
    LET adj0 == [id \in NodeIds(kg.nodes) |-> <<>>]
        adj == BuildAdjacency(kg.nodes, kg.edges, adj0)
    IN  CollectClusters(kg.nodes, kg.nodes, adj, {}, <<>>)

(* A placement whose jitter is hashed from the node's id and type.          *)
RECURSIVE PlaceNodesTyped(_, _, _, _, _, _, _)
PlaceNodesTyped(group, localIndex, localCols, spacing, startX, startY, positions) ==
    IF localIndex >= Len(group) THEN positions
    ELSE LET node == group[localIndex + 1]
             codes == Append(IdCodes(node.id), IF node.type = "T" THEN 84 ELSE 85)
             pos == [x |-> startX + (localIndex % localCols) * spacing + hashOffset(codes) * 6,
                     y |-> startY + (localIndex \div localCols) * spacing
                           + hashOffset(Append(codes, 121)) * 6]
         IN  PlaceNodesTyped(group, localIndex + 1, localCols, spacing, startX, startY,
                             (node.id :> pos) @@ positions)

(* nodes.forEach((node, localIndex) => positions.set(...)) for one cluster. *)
(* A later positions.set for an id replaces the earlier one, so an id's    *)
(* entry is the one written at the last index that holds it.                *)
PlaceNodes(group, localIndex, localCols, spacing, startX, startY, positions) ==
    LET indices == localIndex..(Len(group) - 1)
        lastIndex(id) == CHOOSE k \in indices :
                            /\ group[k + 1].id = id
                            /\ \A j \in indices : group[j + 1].id = id => j <= k
        pos(id) == LET localCol == lastIndex(id) % localCols
                       localRow == lastIndex(id) \div localCols
                       jitterX == hashOffset(IdCodes(id)) * 6
                       jitterY == hashOffset(Append(IdCodes(id), 121)) * 6
                   IN  [x |-> startX + localCol * spacing + jitterX,
                        y |-> startY + localRow * spacing + jitterY]
    IN  [id \in { group[k + 1].id : k \in indices } |-> pos(id)] @@ positions

(* A placement that fills the grid column by column.                        *)
RECURSIVE PlaceClustersTransposed(_, _, _, _, _, _)
PlaceClustersTransposed(clusters, idx, cols, cellWidth, cellHeight, positions) ==
    IF idx >= Len(clusters) THEN positions
    ELSE LET nodes == clusters[idx + 1]
             col == idx \div cols
             row == idx % cols
             centerX == padding * Scale + col * cellWidth + (cellWidth \div 2)
             centerY == padding * Scale + row * cellHeight + (cellHeight \div 2)
             localCount == Len(nodes)
             localCols == CeilSqrt(localCount)
             localRows == CeilDiv(localCount, localCols)
             spacing == Min(150 * Scale, Max(120 * Scale, cellWidth \div (localCols + 1)))
             startX == centerX - (((localCols - 1) * spacing) \div 2)
             startY == centerY - (((localRows - 1) * spacing) \div 2)
         IN  PlaceClustersTransposed(clusters, idx + 1, cols, cellWidth, cellHeight,
                           PlaceNodes(nodes, 0, localCols, spacing, startX, startY, positions))

(* A placement whose sub-grid starts half a column and half a row early.    *)
RECURSIVE PlaceClustersOffCenter(_, _, _, _, _, _)
PlaceClustersOffCenter(clusters, idx, cols, cellWidth, cellHeight, positions) ==
    IF idx >= Len(clusters) THEN positions
    ELSE LET nodes == clusters[idx + 1]
             col == idx % cols
             row == idx \div cols
             centerX == padding * Scale + col * cellWidth + (cellWidth \div 2)
             centerY == padding * Scale + row * cellHeight + (cellHeight \div 2)
             localCount == Len(nodes)
             localCols == CeilSqrt(localCount)
             localRows == CeilDiv(localCount, localCols)
             spacing == Min(150 * Scale, Max(120 * Scale, cellWidth \div (localCols + 1)))
             startX == centerX - ((localCols * spacing) \div 2)
             startY == centerY - ((localRows * spacing) \div 2)
         IN  PlaceClustersOffCenter(clusters, idx + 1, cols, cellWidth, cellHeight,
                           PlaceNodes(nodes, 0, localCols, spacing, startX, startY, positions))

(* groupList.forEach(([_, nodes], idx) => ...): one grid cell per cluster.  *)
(* Lengths are thousandths; a quotient is cut to a whole thousandth.        *)
RECURSIVE PlaceClusters(_, _, _, _, _, _)
PlaceClusters(clusters, idx, cols, cellWidth, cellHeight, positions) ==
    IF idx >= Len(clusters) THEN positions
    ELSE LET nodes == clusters[idx + 1]
             col == idx % cols
             row == idx \div cols
             centerX == padding * Scale + col * cellWidth + (cellWidth \div 2)
             centerY == padding * Scale + row * cellHeight + (cellHeight \div 2)
             localCount == Len(nodes)
             localCols == CeilSqrt(localCount)
             localRows == CeilDiv(localCount, localCols)
             spacing == Min(150 * Scale, Max(120 * Scale, cellWidth \div (localCols + 1)))
             startX == centerX - (((localCols - 1) * spacing) \div 2)
             startY == centerY - (((localRows - 1) * spacing) \div 2)
         IN  PlaceClusters(clusters, idx + 1, cols, cellWidth, cellHeight,
                           PlaceNodes(nodes, 0, localCols, spacing, startX, startY, positions))

(* buildClusterGrid(kg, width, height): node id -> (x, y), in thousandths.  *)
buildClusterGrid(kg, width, height) ==
    LET clusters == ClusterList(kg)
        count == Max(1, Len(clusters))
        cols == CeilSqrt(count)
        rows == CeilDiv(count, cols)
        canvasWidth == Max(width, boardSize)
        canvasHeight == Max(height, boardSize)
        cellWidth == Max(280 * Scale, ((canvasWidth - padding * 2) * Scale) \div cols)
        cellHeight == Max(240 * Scale, ((canvasHeight - padding * 2) * Scale) \div rows)
    IN  PlaceClusters(clusters, 0, cols, cellWidth, cellHeight, <<>>)

-----------------------------------------------------------------------------
(* Rendering: getSeedPositions, getCurrentPositions, toG6Data, applyLodLevel *)

NoSeed == [chapterId |-> "", positions |-> <<>>, isNull |-> TRUE]

NoPos == [x |-> 0, y |-> 0, defined |-> FALSE]

Pos(p) == [x |-> p.x, y |-> p.y, defined |-> TRUE]

NoData == [nodes |-> <<>>, edges |-> <<>>]

(* A cache that, asked for another chapter, keeps the grid it has under the *)
(* new chapter id.                                                          *)
SeedAfterRekeyed(kg, seed) ==
    IF kg.isNull THEN seed
    ELSE IF ~seed.isNull /\ seed.chapterId = kg.chapter_id THEN seed
         ELSE [chapterId |-> kg.chapter_id,
               positions |-> IF seed.isNull THEN buildClusterGrid(kg, boardSize, boardSize)
                             ELSE seed.positions,
               isNull |-> FALSE]

(* layoutSeedRef.current after getSeedPositions(kg): the cached entry is    *)
(* kept when it is for kg's chapter, and replaced by a fresh grid otherwise. *)
SeedAfter(kg, seed) ==
    IF kg.isNull THEN seed
    ELSE IF ~seed.isNull /\ seed.chapterId = kg.chapter_id THEN seed
         ELSE [chapterId |-> kg.chapter_id,
               positions |-> buildClusterGrid(kg, boardSize, boardSize),
               isNull |-> FALSE]

(* The record of cache writes after getSeedPositions(kg): a fresh grid is   *)
(* noted under its chapter id together with the graph it was built from     *)
(* and the number of grids noted for that chapter so far.                   *)
LogAfter(kg, seed, log) ==
    IF SeedAfter(kg, seed) = seed THEN log
    ELSE (kg.chapter_id :> [kg |-> kg,
                            positions |-> SeedAfter(kg, seed).positions,
                            writes |-> IF kg.chapter_id \in DOMAIN log
                                       THEN log[kg.chapter_id].writes + 1 ELSE 1]) @@ log

(* The map getSeedPositions(kg) returns.                                    *)
getSeedPositions(kg, seed) == IF kg.isNull THEN <<>> ELSE SeedAfter(kg, seed).positions

(* getCurrentPositions(): the finite positions of the nodes the renderer    *)
(* holds now; the empty map while there is no renderer.                     *)
getCurrentPositions(ready, data) ==
    IF ~ready THEN <<>>
    ELSE LET ids == { data.nodes[i].id : i \in { k \in 1..Len(data.nodes) : data.nodes[k].pos.defined } }
         IN  [id \in ids |->
                 LET i == CHOOSE k \in 1..Len(data.nodes) :
                              data.nodes[k].id = id /\ data.nodes[k].pos.defined
                 IN  data.nodes[i].pos]

(* A position taken from the seed before the renderer is asked.             *)
NodePosSeedFirst(id, current, positions) ==
    IF id \in DOMAIN positions THEN Pos(positions[id])
    ELSE IF id \in DOMAIN current THEN current[id]
         ELSE NoPos

(* currentPositions.get(id) ?? positions.get(id)                            *)
NodePos(id, current, positions) ==
    IF id \in DOMAIN current THEN current[id]
    ELSE IF id \in DOMAIN positions THEN Pos(positions[id])
         ELSE NoPos

(* edge.id || `${edge.source}-${edge.target}-${index}`                     *)
RenderedEdgeId(edge, index) ==
    IF edge.id # "" THEN edge.id
    ELSE edge.source \o "-" \o edge.target \o "-" \o ToString(index)

(* One entry of the edges array toG6Data builds.                            *)
G6Edge(nodes, edge, index) ==
    [id |-> RenderedEdgeId(edge, index),
     source |-> NameToId(nodes, edge.source),
     target |-> NameToId(nodes, edge.target),
     evidence |-> edge.evidence,
     sourceName |-> edge.source,
     targetName |-> edge.target]

(* toG6Data(kg): what is handed to the renderer.                            *)
toG6Data(kg, seed, ready, data) ==
    IF kg.isNull THEN NoData
    ELSE LET positions == getSeedPositions(kg, seed)
             current == getCurrentPositions(ready, data)
         IN  [nodes |-> [i \in 1..Len(kg.nodes) |->
                            [id |-> kg.nodes[i].id,
                             name |-> kg.nodes[i].name,
                             type |-> kg.nodes[i].type,
                             lod |-> "full",
                             pos |-> NodePos(kg.nodes[i].id, current, positions)]],
              edges |-> [i \in 1..Len(kg.edges) |-> G6Edge(kg.nodes, kg.edges[i], i - 1)]]

(* applyLodLevel(next): every node's data gets lod = next.                  *)
applyLodLevel(data, next) ==
    [data EXCEPT !.nodes = [i \in 1..Len(data.nodes) |-> [data.nodes[i] EXCEPT !.lod = next]]]

(* A level of detail whose upper band starts right above 0.5.              *)
LodOfZoomNarrow(z) == IF z < 50 THEN "hidden" ELSE IF z > 50 THEN "full" ELSE "simple"

(* The band the AFTER_TRANSFORM handler computes from a zoom scale          *)
(* (hundredths): zoom < 0.5 ? "hidden" : zoom > 0.8 ? "full" : "simple".    *)
LodOfZoom(z) == IF z < 50 THEN "hidden" ELSE IF z > 80 THEN "full" ELSE "simple"

-----------------------------------------------------------------------------
(* Mutation Synchronizer: the patches of actions.add / update / removeItem. *)

(* A guard that asks for the book id only.                                  *)
HasContextBookOnly(book, chapter) == book # ""

(* if (!bookId || !chapterId) return;                                       *)
HasContext(book, chapter) == book # "" /\ chapter # ""

(* graphSnapshotRef.current?.nodes || [] and ?.edges || []                  *)
SnapNodes(snap) == IF snap.isNull THEN <<>> ELSE snap.nodes

SnapEdges(snap) == IF snap.isNull THEN <<>> ELSE snap.edges

(* A rename that rewrites sources only.                                     *)
RenameEdgesSourceOnly(edges, oldName, newName) ==
    [k \in 1..Len(edges) |->
        IF edges[k].source = oldName THEN [edges[k] EXCEPT !.source = newName] ELSE edges[k]]

(* The rename cascade of actions.update('node'): nextEdges.map(...).        *)
RenameEdges(edges, oldName, newName) ==
    [i \in 1..Len(edges) |->
        [edges[i] EXCEPT
            !.source = IF @ = oldName THEN newName ELSE @,
            !.target = IF @ = oldName THEN newName ELSE @]]

(* A removal that drops only the edges leaving the node.                    *)
RemoveNodeEdgesSourceOnly(edges, name) ==
    FilterSeq(edges, { e \in Range(edges) : e.source # name })

(* The orphan cleanup of actions.removeItem('node'): edges.filter(...).     *)
RemoveNodeEdges(edges, name) ==
    FilterSeq(edges, { e \in Range(edges) : e.source # name /\ e.target # name })

(* actions.add: the next snapshot once the collaborator returned created.   *)
PatchAdd(snap, chapter, type, created) ==
    IF type = "node"
    THEN KG(chapter, Append(SnapNodes(snap), created), SnapEdges(snap))
    ELSE KG(chapter, SnapNodes(snap), Append(SnapEdges(snap), created))

(* actions.update: the next snapshot once the collaborator returned updated. *)
PatchUpdate(snap, chapter, type, id, updated) ==
    IF type = "node"
    THEN LET prevNodes == SnapNodes(snap)
             p == FindById(prevNodes, id)
             nextNodes == [i \in 1..Len(prevNodes) |->
                              IF prevNodes[i].id = id THEN updated ELSE prevNodes[i]]
             nextEdges == IF p # 0 /\ prevNodes[p].name # updated.name
                          THEN RenameEdges(SnapEdges(snap), prevNodes[p].name, updated.name)
                          ELSE SnapEdges(snap)
         IN  KG(chapter, nextNodes, nextEdges)
    ELSE LET prevEdges == SnapEdges(snap)
         IN  KG(chapter, SnapNodes(snap),
                [i \in 1..Len(prevEdges) |->
                    IF prevEdges[i].id = id THEN updated ELSE prevEdges[i]])

(* actions.removeItem: the next snapshot once the collaborator acknowledged. *)
PatchRemove(snap, chapter, type, id) ==
    IF type = "node"
    THEN LET prevNodes == SnapNodes(snap)
             nodes == FilterSeq(prevNodes, { n \in Range(prevNodes) : n.id # id })
             r == FindById(prevNodes, id)
             edges == IF r # 0 THEN RemoveNodeEdges(SnapEdges(snap), prevNodes[r].name)
                      ELSE SnapEdges(snap)
         IN  KG(chapter, nodes, edges)
    ELSE KG(chapter, SnapNodes(snap),
            FilterSeq(SnapEdges(snap), { e \in Range(SnapEdges(snap)) : e.id # id }))

-----------------------------------------------------------------------------
(* The component as a state machine.                                        *)

MaxCalls == 2

MaxInFlight == 2

MaxCreated == 2

MaxDeliveries == 3

Names == {"B", "C"}

EdgeEnds == { <<"B", "C">> }

ZoomScales == {30, 50, 60, 80, 100}

Widths == {800}

(* The positions in the rendered node and edge lists a click can hit.       *)
MaxClicked == 2

(* How far the force layout moves a node, in thousandths.                   *)
ForceShifts == {5000}

(* What window.prompt returns for the new node's name; "" also for cancel.  *)
NameInputs == {"", "C"}

BookIds == {"b1"}

(* The chapter graphs the page can deliver: one per chapter.  The edge of   *)
(* the second has no backend id, and its target names no node.              *)
MaxLoads == 3

ChapterGraphs ==
    { KG("c1", <<Node("n1", "A", "T"), Node("n2", "B", "T")>>,
               <<Edge("e1", "A", "B", "p")>>),
      KG("c2", <<Node("m1", "A", "T"), Node("m2", "C", "T")>>,
               <<Edge("", "C", "Z", "q")>>) }

ChapterIds == { g.chapter_id : g \in ChapterGraphs }

VARIABLES
    bookId,            \* prop bookId ("" when null)
    graph,             \* prop graph (NoGraph when null)
    chapterId,         \* the chapterId of the last render, captured by actions
    graphSnapshotRef,  \* graphSnapshotRef.current
    graphReady,        \* graphRef.current is set
    g6,                \* the data the renderer holds
    lodLevelRef,       \* lodLevelRef.current
    layoutStoppedRef,  \* layoutStoppedRef.current (the settle flag)
    lastChapterIdRef,  \* lastChapterIdRef.current ("" when null)
    layoutSeedRef,     \* layoutSeedRef.current
    seedLog,           \* per chapter id, the graph and positions last put in the cache
    layoutType,        \* the renderer's layout: "force" or "preset"
    listeners,         \* once("afterlayout") listeners registered and not yet fired
    calls,             \* the mutation calls in flight, by slot
    created,           \* how many ids the collaborator has assigned
    issued,            \* how many collaborator endpoints were invoked
    deliveries,        \* how many graphs the page delivered
    notified,          \* the graph-change notifications the last event emitted
    probe,             \* the chapter graphs a seed layout computation is given
    seeded,            \* what those computations returned
    highlightTerm,     \* the page's highlightTerm state
    evidence,          \* the page's evidence state
    activeChapterId,   \* the page's activeChapterId state ("" when null)
    loads,             \* the page's loadChapterData calls, each with its position
    ev                 \* the last event and, for a call, what its caller saw

vars == <<bookId, graph, chapterId, graphSnapshotRef, graphReady, g6, lodLevelRef,
          layoutStoppedRef, lastChapterIdRef, layoutSeedRef, seedLog, layoutType,
          listeners, calls, created, issued, deliveries, notified, probe, seeded,
          highlightTerm, evidence, activeChapterId, loads, ev>>

propVars == <<bookId, graph, chapterId, deliveries>>

viewVars == <<g6, lodLevelRef, layoutSeedRef, seedLog>>

forceVars == <<layoutStoppedRef, lastChapterIdRef, layoutType, listeners>>

callVars == <<calls, created, issued>>

seedVars == <<probe, seeded>>

selectVars == <<highlightTerm, evidence>>

loadVars == <<activeChapterId, loads>>

pageVars == <<highlightTerm, evidence, activeChapterId, loads>>

(* useState<string | null>(null)                                            *)
NoHighlight == [isNull |-> TRUE, text |-> ""]

Text(s) == [isNull |-> FALSE, text |-> s]

(* if (!highlightTerm) return markdown: null and "" both highlight nothing. *)
Target(h) == IF h.isNull THEN "" ELSE h.text

NoProbe == [a |-> NoGraph, b |-> NoGraph]

NotSeeded == [done |-> FALSE]

Idle == [op |-> "idle"]

(* const chapterId = graph?.chapter_id || graphSnapshotRef.current?.chapter_id || "" *)
DeriveChapterId(g, snap) == IF g.chapter_id # "" THEN g.chapter_id ELSE snap.chapter_id

Init ==
    /\ bookId = ""
    /\ graph = NoGraph
    /\ chapterId = ""
    /\ graphSnapshotRef = NoGraph
    /\ graphReady = FALSE
    /\ g6 = NoData
    /\ lodLevelRef = "full"
    /\ layoutStoppedRef = FALSE
    /\ lastChapterIdRef = ""
    /\ layoutSeedRef = NoSeed
    /\ seedLog = <<>>
    /\ layoutType = "force"
    /\ listeners = 0
    /\ calls = [i \in 1..MaxInFlight |-> Idle]
    /\ created = 0
    /\ issued = 0
    /\ deliveries = 0
    /\ notified = <<>>
    /\ probe = NoProbe
    /\ seeded = NotSeeded
    /\ highlightTerm = NoHighlight
    /\ evidence = NoHighlight
    /\ activeChapterId = ""
    /\ loads = <<>>
    /\ ev = [kind |-> "mount"]

(* The page passes another bookId; the component renders again.             *)
SetBook(b) ==
    /\ b # bookId
    /\ bookId' = b
    /\ chapterId' = DeriveChapterId(graph, graphSnapshotRef)
    /\ notified' = <<>>
    /\ ev' = [kind |-> "props"]
    /\ UNCHANGED <<graph, deliveries, graphSnapshotRef, graphReady, viewVars, forceVars, callVars, seedVars, pageVars>>

(* The component renders again with the props it has.                       *)
Rerender ==
    /\ chapterId' = DeriveChapterId(graph, graphSnapshotRef)
    /\ notified' = <<>>
    /\ ev' = [kind |-> "render"]
    /\ UNCHANGED <<bookId, graph, deliveries, graphSnapshotRef, graphReady, viewVars,
                   forceVars, callVars, seedVars, pageVars>>

(* ResizeObserver: setDims, a render, and the effect that resizes the       *)
(* canvas, its drag range and its zoom range and draws.                     *)
Resize(w) ==
    /\ graphReady
    /\ chapterId' = DeriveChapterId(graph, graphSnapshotRef)
    /\ notified' = <<>>
    /\ ev' = [kind |-> "resize", width |-> w]
    /\ UNCHANGED <<bookId, graph, deliveries, graphSnapshotRef, graphReady, viewVars,
                   forceVars, callVars, seedVars, pageVars>>

(* A runForceOnce that puts the layout on preset as it starts.              *)
runForceOnceStatic ==
    /\ listeners' = listeners + 1
    /\ layoutType' = "preset"

(* runForceOnce: one more once("afterlayout") listener, the force layout    *)
(* set and started.                                                         *)
runForceOnce ==
    /\ listeners' = listeners + 1
    /\ layoutType' = "force"

(* A graph effect that keeps the level of detail the view had.              *)
GraphEffectKeepLod(g) ==
    /\ g6' = applyLodLevel(toG6Data(g, layoutSeedRef, graphReady, g6), lodLevelRef)
    /\ layoutSeedRef' = SeedAfter(g, layoutSeedRef)
    /\ seedLog' = LogAfter(g, layoutSeedRef, seedLog)
    /\ lodLevelRef' = lodLevelRef
    /\ lastChapterIdRef' = g.chapter_id
    /\ IF g.chapter_id # "" /\ g.chapter_id # lastChapterIdRef
       THEN /\ layoutStoppedRef' = FALSE
            /\ runForceOnce
       ELSE UNCHANGED <<layoutStoppedRef, layoutType, listeners>>

(* The graph effect of a delivered graph g, run with a renderer.            *)
GraphEffect(g) ==
    /\ g6' = applyLodLevel(toG6Data(g, layoutSeedRef, graphReady, g6), "full")
    /\ layoutSeedRef' = SeedAfter(g, layoutSeedRef)
    /\ seedLog' = LogAfter(g, layoutSeedRef, seedLog)
    /\ lodLevelRef' = "full"
    /\ lastChapterIdRef' = g.chapter_id
    /\ IF g.chapter_id # "" /\ g.chapter_id # lastChapterIdRef
       THEN /\ layoutStoppedRef' = FALSE
            /\ runForceOnce
       ELSE UNCHANGED <<layoutStoppedRef, layoutType, listeners>>

(* setGraph(g) of the page: the graph object (or null) becomes the graph    *)
(* prop; the render, the effect that stores it in graphSnapshotRef, and the *)
(* graph effect, which returns at once while there is no renderer.          *)
setGraph(g) ==
    /\ deliveries < MaxDeliveries
    /\ deliveries' = deliveries + 1
    /\ graph' = g
    /\ chapterId' = DeriveChapterId(g, graphSnapshotRef)
    /\ graphSnapshotRef' = g
    /\ notified' = <<>>
    /\ ev' = [kind |-> "deliver", lod |-> lodLevelRef]
    /\ IF graphReady THEN GraphEffect(g) ELSE UNCHANGED <<viewVars, forceVars>>
    /\ UNCHANGED <<bookId, graphReady, callVars, seedVars>>

(* The page delivers a graph object (or null) as the graph prop.            *)
DeliverGraph(g) ==
    /\ setGraph(g)
    /\ UNCHANGED pageVars

(* loadChapterData resumes after Promise.all: the collaborator's graph of   *)
(* the chapter the call was started for is stored with setGraph.            *)
LoadReturns(k) ==
    /\ k \in 1..Len(loads)
    /\ loads[k].status = "pending"
    /\ \E g \in { h \in ChapterGraphs : h.chapter_id = loads[k].chapter } : setGraph(g)
    /\ loads' = [loads EXCEPT ![k].status = "done"]
    /\ UNCHANGED <<activeChapterId, selectVars>>

(* A fetch of loadChapterData throws: setError, and the graph stays.        *)
LoadFails(k) ==
    /\ k \in 1..Len(loads)
    /\ loads[k].status = "pending"
    /\ loads' = [loads EXCEPT ![k].status = "failed"]
    /\ notified' = <<>>
    /\ ev' = [kind |-> "loaderror"]
    /\ UNCHANGED <<propVars, graphSnapshotRef, graphReady, viewVars, forceVars, callVars, seedVars,
                   activeChapterId, selectVars>>

(* initGraph resumes after the dynamic imports: the renderer is built from  *)
(* the snapshot, rendered, and runForceOnce is called.                      *)
InitGraphDone ==
    /\ ~graphReady
    /\ graphReady' = TRUE
    /\ g6' = toG6Data(graphSnapshotRef, layoutSeedRef, FALSE, g6)
    /\ layoutSeedRef' = SeedAfter(graphSnapshotRef, layoutSeedRef)
    /\ seedLog' = LogAfter(graphSnapshotRef, layoutSeedRef, seedLog)
    /\ runForceOnce
    /\ notified' = <<>>
    /\ ev' = [kind |-> "ready"]
    /\ UNCHANGED <<propVars, graphSnapshotRef, lodLevelRef, layoutStoppedRef,
                   lastChapterIdRef, callVars, seedVars, pageVars>>

(* Where the force layout leaves a node: some way off where it started, or  *)
(* at a finite place when it had no position.                               *)
Moved(p, d) ==
    IF p.defined THEN [x |-> p.x + d, y |-> p.y + d, defined |-> TRUE]
    ELSE [x |-> d, y |-> d, defined |-> TRUE]

(* The first afterlayout event after runForceOnce: the force layout has     *)
(* moved the nodes; every once-listener runs, and the first one that finds  *)
(* the flag unset freezes the layout.                                       *)
AfterLayout(d) ==
    /\ graphReady
    /\ listeners > 0
    /\ listeners' = 0
    /\ layoutStoppedRef' = TRUE
    /\ layoutType' = IF layoutStoppedRef THEN layoutType ELSE "preset"
    /\ g6' = [g6 EXCEPT !.nodes = [k \in 1..Len(g6.nodes) |->
                                      [g6.nodes[k] EXCEPT !.pos = Moved(@, d)]]]
    /\ notified' = <<>>
    /\ ev' = [kind |-> "afterlayout"]
    /\ UNCHANGED <<propVars, graphSnapshotRef, graphReady, lodLevelRef, layoutSeedRef, seedLog,
                   lastChapterIdRef, callVars, seedVars, pageVars>>

(* GraphEvent.AFTER_TRANSFORM with a zoom scale z.                          *)
AfterTransform(z) ==
    /\ graphReady
    /\ LET nextLevel == LodOfZoom(z)
       IN  IF lodLevelRef # nextLevel
           THEN /\ lodLevelRef' = nextLevel
                /\ g6' = applyLodLevel(g6, nextLevel)
           ELSE UNCHANGED <<lodLevelRef, g6>>
    /\ notified' = <<>>
    /\ ev' = [kind |-> "transform", scale |-> z]
    /\ UNCHANGED <<propVars, graphSnapshotRef, graphReady, layoutSeedRef, seedLog, forceVars,
                   callVars, seedVars, pageVars>>

-----------------------------------------------------------------------------
(* The mutation calls.                                                      *)

Call(op, type, id, name, source, target) ==
    [op |-> op, type |-> type, id |-> id, name |-> name, source |-> source, target |-> target]

(* The ids under which the snapshot's edges are rendered.                   *)
RenderedEdgeIds(snap) ==
    { RenderedEdgeId(SnapEdges(snap)[i], i - 1) : i \in 1..Len(SnapEdges(snap)) }

(* What a caller can pass: names and endpoint pairs from small sets, ids    *)
(* from the nodes and edges on screen.                                      *)
CallInputs(snap) ==
    { Call("add", "node", "", n, "", "") : n \in Names }
    \cup { Call("add", "edge", "", "", e[1], e[2]) : e \in EdgeEnds }
    \cup { Call("update", "node", i, n, "", "") : i \in NodeIds(SnapNodes(snap)), n \in Names }
    \cup { Call("update", "edge", i, "", e[1], e[2]) : i \in RenderedEdgeIds(snap), e \in EdgeEnds }
    \cup { Call("removeItem", "node", i, "", "", "") : i \in NodeIds(SnapNodes(snap)) }
    \cup { Call("removeItem", "edge", i, "", "", "") : i \in RenderedEdgeIds(snap) }

FreshNodeId(k) == CASE k = 0 -> "x1" [] k = 1 -> "x2" [] OTHER -> "x3"

FreshEdgeId(k) == CASE k = 0 -> "f1" [] k = 1 -> "f2" [] OTHER -> "f3"

(* What the collaborator returns on success: the created or updated entity. *)
Returned(c, k) ==
    CASE c.op = "add" /\ c.type = "node" -> Node(FreshNodeId(k), c.name, "T")
      [] c.op = "add" /\ c.type = "edge" -> Edge(FreshEdgeId(k), c.source, c.target, "s")
      [] c.op = "update" /\ c.type = "node" -> Node(c.id, c.name, "T")
      [] c.op = "update" /\ c.type = "edge" -> Edge(c.id, c.source, c.target, "s")
      [] OTHER -> [ok |-> TRUE]

(* The snapshot a call builds when its collaborator call has succeeded,     *)
(* from graphSnapshotRef.current as it is then and the chapterId it captured. *)
Patch(snap, c, k) ==
    CASE c.op = "add" -> PatchAdd(snap, c.chapter, c.type, Returned(c, k))
      [] c.op = "update" -> PatchUpdate(snap, c.chapter, c.type, c.id, Returned(c, k))
      [] OTHER -> PatchRemove(snap, c.chapter, c.type, c.id)

FreeSlots == { i \in 1..MaxInFlight : calls[i] = Idle }

PendingAdds == Cardinality({ i \in 1..MaxInFlight : calls[i] # Idle /\ calls[i].op = "add" })

(* A caller invokes add, update or removeItem without the context the       *)
(* guard asks for: the call returns at once.                                *)
CallWithoutContext(c) ==
    /\ ~HasContext(bookId, chapterId)
    /\ notified' = <<>>
    /\ ev' = [kind |-> "call", op |-> c.op, type |-> c.type, result |-> "returned"]
    /\ UNCHANGED <<propVars, graphSnapshotRef, graphReady, viewVars, forceVars, callVars, seedVars, pageVars>>

(* A call that applies its patch before the collaborator answers.           *)
CallEndpointOptimistic(c) ==
    /\ HasContext(bookId, chapterId)
    /\ issued < MaxCalls
    /\ FreeSlots # {}
    /\ c.op = "add" => created + PendingAdds < MaxCreated
    /\ LET i == CHOOSE k \in FreeSlots : \A j \in FreeSlots : k <= j
       IN  calls' = [calls EXCEPT ![i] = c @@ [book |-> bookId, chapter |-> chapterId]]
    /\ issued' = issued + 1
    /\ graphSnapshotRef' = Patch(graphSnapshotRef, c @@ [chapter |-> chapterId], created)
    /\ notified' = <<>>
    /\ ev' = [kind |-> "call", op |-> c.op, type |-> c.type, result |-> "pending"]
    /\ UNCHANGED <<propVars, graphReady, viewVars, forceVars, created, seedVars, pageVars>>

(* A caller invokes add, update or removeItem: past the guard, the          *)
(* collaborator endpoint is invoked and awaited.                            *)
CallEndpoint(c) ==
    /\ HasContext(bookId, chapterId)
    /\ issued < MaxCalls
    /\ FreeSlots # {}
    /\ c.op = "add" => created + PendingAdds < MaxCreated
    /\ LET i == CHOOSE k \in FreeSlots : \A j \in FreeSlots : k <= j
       IN  calls' = [calls EXCEPT ![i] = c @@ [book |-> bookId, chapter |-> chapterId]]
    /\ issued' = issued + 1
    /\ notified' = <<>>
    /\ ev' = [kind |-> "call", op |-> c.op, type |-> c.type, result |-> "pending"]
    /\ UNCHANGED <<propVars, graphSnapshotRef, graphReady, viewVars, forceVars, created, seedVars, pageVars>>

(* A store that notifies with the snapshot it is about to replace.          *)
updateGraphSnapshotNotifyStale(next) ==
    /\ graphSnapshotRef' = next
    /\ notified' = <<graphSnapshotRef>>
    /\ IF graphReady
       THEN /\ g6' = toG6Data(next, layoutSeedRef, graphReady, g6)
            /\ layoutSeedRef' = SeedAfter(next, layoutSeedRef)
            /\ seedLog' = LogAfter(next, layoutSeedRef, seedLog)
       ELSE UNCHANGED <<g6, layoutSeedRef, seedLog>>

(* updateGraphSnapshot(next): store, notify, and hand next to the renderer. *)
updateGraphSnapshot(next) ==
    /\ graphSnapshotRef' = next
    /\ notified' = <<next>>
    /\ IF graphReady
       THEN /\ g6' = toG6Data(next, layoutSeedRef, graphReady, g6)
            /\ layoutSeedRef' = SeedAfter(next, layoutSeedRef)
            /\ seedLog' = LogAfter(next, layoutSeedRef, seedLog)
       ELSE UNCHANGED <<g6, layoutSeedRef, seedLog>>

(* A completion that drops the answer when the chapter has changed since.   *)
ResolveDropsLate(i) ==
    /\ calls[i] # Idle
    /\ IF calls[i].chapter = graphSnapshotRef.chapter_id
       THEN updateGraphSnapshot(Patch(graphSnapshotRef, calls[i], created))
       ELSE /\ notified' = <<>>
            /\ UNCHANGED <<graphSnapshotRef, g6, layoutSeedRef, seedLog>>
    /\ created' = IF calls[i].op = "add" THEN created + 1 ELSE created
    /\ calls' = [calls EXCEPT ![i] = Idle]
    /\ ev' = [kind |-> "settled", endpoint |-> "ok", result |-> "fulfilled"]
    /\ UNCHANGED <<propVars, graphReady, lodLevelRef, forceVars, issued, seedVars, pageVars>>

(* A completion that patches the graph prop of the last render instead of   *)
(* the snapshot as it is now.                                               *)
ResolveFromProp(i) ==
    /\ calls[i] # Idle
    /\ updateGraphSnapshot(Patch(graph, calls[i], created))
    /\ created' = IF calls[i].op = "add" THEN created + 1 ELSE created
    /\ calls' = [calls EXCEPT ![i] = Idle]
    /\ ev' = [kind |-> "settled", endpoint |-> "ok", result |-> "fulfilled"]
    /\ UNCHANGED <<propVars, graphReady, lodLevelRef, forceVars, issued, seedVars, pageVars>>

(* The collaborator call in slot i succeeds: the rest of the handler runs.  *)
Resolve(i) ==
    /\ calls[i] # Idle
    /\ updateGraphSnapshot(Patch(graphSnapshotRef, calls[i], created))
    /\ created' = IF calls[i].op = "add" THEN created + 1 ELSE created
    /\ calls' = [calls EXCEPT ![i] = Idle]
    /\ ev' = [kind |-> "settled", endpoint |-> "ok", result |-> "fulfilled"]
    /\ UNCHANGED <<propVars, graphReady, lodLevelRef, forceVars, issued, seedVars, pageVars>>

(* A failure handler that swallows the error and patches all the same.      *)
RejectSwallowed(i) ==
    /\ calls[i] # Idle
    /\ updateGraphSnapshot(Patch(graphSnapshotRef, calls[i], created))
    /\ created' = created
    /\ calls' = [calls EXCEPT ![i] = Idle]
    /\ ev' = [kind |-> "settled", endpoint |-> "failed", result |-> "fulfilled"]
    /\ UNCHANGED <<propVars, graphReady, lodLevelRef, forceVars, issued, seedVars, pageVars>>

(* The collaborator call in slot i fails: the await throws and the promise  *)
(* the caller holds rejects.                                                *)
Reject(i) ==
    /\ calls[i] # Idle
    /\ calls' = [calls EXCEPT ![i] = Idle]
    /\ notified' = <<>>
    /\ ev' = [kind |-> "settled", endpoint |-> "failed", result |-> "rejected"]
    /\ UNCHANGED <<propVars, graphSnapshotRef, graphReady, viewVars, forceVars, created, issued, seedVars, pageVars>>

(* A node selection that leaves the evidence state as it was.               *)
onSelectNodeKeepEvidence(name) ==
    /\ highlightTerm' = Text(name)
    /\ UNCHANGED evidence

(* onSelectNode={(name) => { setHighlightTerm(name); setEvidence(null) }}    *)
onSelectNode(name) ==
    /\ highlightTerm' = Text(name)
    /\ evidence' = NoHighlight

(* onSelectEdge={(evidenceText) => { setEvidence(evidenceText);             *)
(*                                   setHighlightTerm(evidenceText) }}      *)
onSelectEdge(evidenceText) ==
    /\ evidence' = Text(evidenceText)
    /\ highlightTerm' = Text(evidenceText)

(* graphInstance.on("node:click"): the k-th rendered node is clicked.       *)
NodeClick(k) ==
    /\ graphReady
    /\ k \in 1..Len(g6.nodes)
    /\ g6.nodes[k].id # ""
    /\ LET name == g6.nodes[k].name
       IN /\ IF name # "" THEN onSelectNode(name) ELSE UNCHANGED selectVars
          /\ ev' = [kind |-> "click", element |-> "node", text |-> name, was |-> highlightTerm]
    /\ notified' = <<>>
    /\ UNCHANGED <<propVars, graphSnapshotRef, graphReady, viewVars, forceVars, callVars, seedVars,
                   loadVars>>

(* graphInstance.on("edge:click"): the k-th rendered edge is clicked.       *)
EdgeClick(k) ==
    /\ graphReady
    /\ k \in 1..Len(g6.edges)
    /\ g6.edges[k].id # ""
    /\ LET text == g6.edges[k].evidence
       IN /\ IF text # "" THEN onSelectEdge(text) ELSE UNCHANGED selectVars
          /\ ev' = [kind |-> "click", element |-> "edge", text |-> text, was |-> highlightTerm]
    /\ notified' = <<>>
    /\ UNCHANGED <<propVars, graphSnapshotRef, graphReady, viewVars, forceVars, callVars, seedVars,
                   loadVars>>

(* ChapterList onSelect: setActiveChapterId(id); setHighlightTerm(null);    *)
(* setEvidence(null). The list shows the chapters of the page's book, so    *)
(* the page has its bookId; when the id is a new one the effect on          *)
(* [bookId, activeChapterId] runs after the render and starts               *)
(* loadChapterData for it. The chapter's graph arrives later.               *)
SelectChapter(id) ==
    /\ id # activeChapterId => Len(loads) < MaxLoads
    /\ activeChapterId' = id
    /\ loads' = IF id # activeChapterId
                THEN Append(loads, [chapter |-> id, status |-> "pending"])
                ELSE loads
    /\ highlightTerm' = NoHighlight
    /\ evidence' = NoHighlight
    /\ notified' = <<>>
    /\ ev' = [kind |-> "chapter"]
    /\ UNCHANGED <<propVars, graphSnapshotRef, graphReady, viewVars, forceVars, callVars, seedVars>>

(* The synchronizer: the page's props, the renderer's start and the calls. *)
Next ==
    \/ \E b \in BookIds : SetBook(b)
    \/ Rerender
    \/ \E g \in ChapterGraphs \cup {NoGraph} : DeliverGraph(g)
    \/ InitGraphDone
    \/ \E c \in CallInputs(graphSnapshotRef) : CallWithoutContext(c)
    \/ \E c \in CallInputs(graphSnapshotRef) : CallEndpoint(c)
    \/ \E i \in 1..MaxInFlight : Resolve(i)
    \/ \E i \in 1..MaxInFlight : Reject(i)

Spec == Init /\ [][Next]_vars

(* The view: deliveries, the force refinement, pan/zoom and resize events,  *)
(* with the node mutations a context menu offers.                           *)
ViewCalls(snap) == { c \in CallInputs(snap) : c.type = "node" /\ c.name \in {"", "C"} }

NextView ==
    \/ \E b \in BookIds : SetBook(b)
    \/ \E w \in Widths : Resize(w)
    \/ \E g \in ChapterGraphs \cup {NoGraph} : DeliverGraph(g)
    \/ InitGraphDone
    \/ \E d \in ForceShifts : AfterLayout(d)
    \/ \E z \in ZoomScales : AfterTransform(z)
    \/ \E c \in ViewCalls(graphSnapshotRef) : CallEndpoint(c)
    \/ \E i \in 1..MaxInFlight : Resolve(i)
    \/ \E i \in 1..MaxInFlight : Reject(i)

SpecView == Init /\ [][NextView]_vars

(* The seed cache and the positions: chapters are visited and re-visited,   *)
(* the first of them also as the page fetches it after a node was added,    *)
(* and nodes are added, renamed and removed from the context menu.          *)
RefetchedGraphs ==
    { KG("c1", <<Node("n1", "A", "T"), Node("n2", "B", "T"), Node("x1", "C", "T")>>,
               <<Edge("e1", "A", "B", "p")>>) }

CacheCalls(snap) == { c \in CallInputs(snap) : c.type = "node" /\ c.name \in {"", "C"} }

NextCache ==
    \/ \E b \in BookIds : SetBook(b)
    \/ \E g \in ChapterGraphs \cup RefetchedGraphs : DeliverGraph(g)
    \/ InitGraphDone
    \/ \E d \in ForceShifts : AfterLayout(d)
    \/ \E c \in CacheCalls(graphSnapshotRef) : CallEndpoint(c)
    \/ \E i \in 1..MaxInFlight : Resolve(i)
    \/ \E i \in 1..MaxInFlight : Reject(i)

SpecCache == Init /\ [][NextCache]_vars

(* Chapter graphs with an edge that carries no evidence text.               *)
SelectGraphs ==
    { KG("c1", <<Node("n1", "A", "T"), Node("n2", "B", "T")>>,
               <<Edge("e1", "A", "B", "p"), Edge("e2", "B", "A", "")>>) }

(* The selection bridge: clicks on the rendered graph and chapter choice.   *)
NextSelect ==
    \/ \E b \in BookIds : SetBook(b)
    \/ \E id \in ChapterIds : SelectChapter(id)
    \/ \E g \in ChapterGraphs \cup SelectGraphs : DeliverGraph(g)
    \/ InitGraphDone
    \/ \E k \in 1..MaxClicked : NodeClick(k)
    \/ \E k \in 1..MaxClicked : EdgeClick(k)

SpecSelect == Init /\ [][NextSelect]_vars

(* The page's chapter loading: chapters are chosen, their graphs are        *)
(* fetched and arrive or fail in any order, and the renderer starts.        *)
NextLoad ==
    \/ \E id \in ChapterIds : SelectChapter(id)
    \/ \E k \in 1..MaxLoads : LoadReturns(k)
    \/ \E k \in 1..MaxLoads : LoadFails(k)
    \/ InitGraphDone

SpecLoad == Init /\ [][NextLoad]_vars

(* The one-shot refinement: graphs are delivered, the renderer starts, and  *)
(* the simulation settles. A simulation that was started emits its          *)
(* afterlayout event.                                                       *)
NextSettle ==
    \/ \E g \in ChapterGraphs \cup {NoGraph} : DeliverGraph(g)
    \/ InitGraphDone
    \/ \E d \in ForceShifts : AfterLayout(d)

SpecSettle ==
    /\ Init
    /\ [][NextSettle]_vars
    /\ WF_vars(\E d \in ForceShifts : AfterLayout(d))

(* contextmenu onClick, value "add-node" on a node: the prompt's answer is  *)
(* checked (if (!name) return) and then handed to actions.add.              *)
MenuAddNode(name) ==
    /\ graphReady
    /\ Len(g6.nodes) > 0
    /\ IF name = ""
       THEN /\ notified' = <<>>
            /\ ev' = [kind |-> "menu", value |-> "add-node", result |-> "returned"]
            /\ UNCHANGED <<propVars, graphSnapshotRef, graphReady, viewVars, forceVars,
                           callVars, seedVars, pageVars>>
       ELSE \/ CallEndpoint(Call("add", "node", "", name, "", ""))
            \/ CallWithoutContext(Call("add", "node", "", name, "", ""))

(* add("node", payload) through the handle given to onGraphActions.         *)
InputCalls == { Call("add", "node", "", n, "", "") : n \in NameInputs }

(* Node creation, by the context menu and by the actions handle.            *)
NextInput ==
    \/ \E b \in BookIds : SetBook(b)
    \/ \E g \in ChapterGraphs \cup {NoGraph} : DeliverGraph(g)
    \/ InitGraphDone
    \/ \E n \in NameInputs : MenuAddNode(n)
    \/ \E c \in InputCalls : CallWithoutContext(c)
    \/ \E c \in InputCalls : CallEndpoint(c)
    \/ \E i \in 1..MaxInFlight : Resolve(i)
    \/ \E i \in 1..MaxInFlight : Reject(i)

SpecInput == Init /\ [][NextInput]_vars

-----------------------------------------------------------------------------
(* The seed layout as a function of the chapter graph: two chapter graphs   *)
(* are drawn from bounded sets and each is laid out on the board.           *)

MaxSeedNodes == 3

MaxSeedEdges == 2

SeedIds == <<"n1", "n2", "n3", "m1", "m2">>

SeedNames == {"A", "B", "C"}

SeedEnds == { <<"A", "B">>, <<"B", "C">>, <<"C", "Z">>, <<"A", "A">> }

SeedNodeLists ==
    UNION { { [i \in 1..n |-> Node(SeedIds[i], f[i], "T")] : f \in [1..n -> SeedNames] } :
            n \in 0..MaxSeedNodes }

SeedEdgeLists ==
    UNION { { [i \in 1..n |-> Edge("", f[i][1], f[i][2], "p")] : f \in [1..n -> SeedEnds] } :
            n \in 0..MaxSeedEdges }

SeedGraphs == { KG("c1", ns, es) : ns \in SeedNodeLists, es \in SeedEdgeLists }

(* The same nodes and edges under other types, edge ids and evidence.       *)
Relabelled(kg) ==
    KG("c2", [i \in 1..Len(kg.nodes) |-> Node(kg.nodes[i].id, kg.nodes[i].name, "U")],
       [i \in 1..Len(kg.edges) |-> Edge("e1", kg.edges[i].source, kg.edges[i].target, "q")])

(* The same nodes listed in the opposite order.                             *)
Reordered(kg) ==
    KG(kg.chapter_id, [i \in 1..Len(kg.nodes) |-> kg.nodes[Len(kg.nodes) + 1 - i]], kg.edges)

(* The same nodes without the edges.                                        *)
Unlinked(kg) == KG(kg.chapter_id, kg.nodes, <<>>)

InitSeed ==
    /\ bookId = ""
    /\ graph = NoGraph
    /\ chapterId = ""
    /\ graphSnapshotRef = NoGraph
    /\ graphReady = FALSE
    /\ g6 = NoData
    /\ lodLevelRef = "full"
    /\ layoutStoppedRef = FALSE
    /\ lastChapterIdRef = ""
    /\ layoutSeedRef = NoSeed
    /\ seedLog = <<>>
    /\ layoutType = "force"
    /\ listeners = 0
    /\ calls = [i \in 1..MaxInFlight |-> Idle]
    /\ created = 0
    /\ issued = 0
    /\ deliveries = 0
    /\ notified = <<>>
    /\ \E a \in SeedGraphs : \E b \in {Relabelled(a), Reordered(a), Unlinked(a)} :
           probe = [a |-> a, b |-> b]
    /\ seeded = NotSeeded
    /\ highlightTerm = NoHighlight
    /\ evidence = NoHighlight
    /\ activeChapterId = ""
    /\ loads = <<>>
    /\ ev = [kind |-> "mount"]

(* buildClusterGrid(kg, boardSize, boardSize) on each of the two graphs.    *)
SeedLayout ==
    /\ ~seeded.done
    /\ seeded' = [done |-> TRUE,
                  clusters |-> ClusterList(probe.a),
                  a |-> buildClusterGrid(probe.a, boardSize, boardSize),
                  b |-> buildClusterGrid(probe.b, boardSize, boardSize)]
    /\ ev' = [kind |-> "seed"]
    /\ UNCHANGED <<propVars, graphSnapshotRef, graphReady, viewVars, forceVars, callVars,
                   notified, probe, pageVars>>

NextSeed == SeedLayout

SpecSeed == InitSeed /\ [][NextSeed]_vars

(* Chapter graphs with exactly one node, under each id and name, with and   *)
(* without an edge from the node to itself.                                 *)
SoloGraphs ==
    { KG("c1", <<Node(i, n, "T")>>, es) :
        i \in Range(SeedIds), n \in SeedNames,
        es \in { <<>>, <<Edge("", "A", "A", "p")>> } }

InitSolo ==
    /\ bookId = ""
    /\ graph = NoGraph
    /\ chapterId = ""
    /\ graphSnapshotRef = NoGraph
    /\ graphReady = FALSE
    /\ g6 = NoData
    /\ lodLevelRef = "full"
    /\ layoutStoppedRef = FALSE
    /\ lastChapterIdRef = ""
    /\ layoutSeedRef = NoSeed
    /\ seedLog = <<>>
    /\ layoutType = "force"
    /\ listeners = 0
    /\ calls = [i \in 1..MaxInFlight |-> Idle]
    /\ created = 0
    /\ issued = 0
    /\ deliveries = 0
    /\ notified = <<>>
    /\ \E a \in SoloGraphs : \E b \in SoloGraphs : probe = [a |-> a, b |-> b]
    /\ seeded = NotSeeded
    /\ highlightTerm = NoHighlight
    /\ evidence = NoHighlight
    /\ activeChapterId = ""
    /\ loads = <<>>
    /\ ev = [kind |-> "mount"]

(* The seed layout of two one-node chapter graphs.                          *)
SpecSolo == InitSolo /\ [][NextSeed]_vars

(* A chapter graph of one chain of n nodes, each linked to the next, and s  *)
(* nodes without edges: s + 1 connected components (s when n = 0).          *)
GridGraph(n, s) ==
    KG("c1", [i \in 1..(n + s) |-> Node(GridIds[i], GridIds[i], "T")],
             [i \in 1..(IF n > 0 THEN n - 1 ELSE 0) |->
                 Edge("", GridIds[i], GridIds[i + 1], "p")])

MaxChain == 65

MaxSingles == 16

InitGrid ==
    /\ bookId = ""
    /\ graph = NoGraph
    /\ chapterId = ""
    /\ graphSnapshotRef = NoGraph
    /\ graphReady = FALSE
    /\ g6 = NoData
    /\ lodLevelRef = "full"
    /\ layoutStoppedRef = FALSE
    /\ lastChapterIdRef = ""
    /\ layoutSeedRef = NoSeed
    /\ seedLog = <<>>
    /\ layoutType = "force"
    /\ listeners = 0
    /\ calls = [i \in 1..MaxInFlight |-> Idle]
    /\ created = 0
    /\ issued = 0
    /\ deliveries = 0
    /\ notified = <<>>
    /\ \E n \in 0..MaxChain : \E s \in 0..MaxSingles :
           probe = [a |-> GridGraph(n, s), b |-> NoGraph]
    /\ seeded = NotSeeded
    /\ highlightTerm = NoHighlight
    /\ evidence = NoHighlight
    /\ activeChapterId = ""
    /\ loads = <<>>
    /\ ev = [kind |-> "mount"]

(* The seed layout of chapter graphs with many components.                  *)
SpecGrid == InitGrid /\ [][NextSeed]_vars

(* Node ids as strings of code units: up to MaxIdLen of "0", "a" and "z".   *)
MaxIdLen == 7

IdUnits == {48, 97, 122}

IdStrings == UNION { [1..n -> IdUnits] : n \in 0..MaxIdLen }

InitHash ==
    /\ bookId = ""
    /\ graph = NoGraph
    /\ chapterId = ""
    /\ graphSnapshotRef = NoGraph
    /\ graphReady = FALSE
    /\ g6 = NoData
    /\ lodLevelRef = "full"
    /\ layoutStoppedRef = FALSE
    /\ lastChapterIdRef = ""
    /\ layoutSeedRef = NoSeed
    /\ seedLog = <<>>
    /\ layoutType = "force"
    /\ listeners = 0
    /\ calls = [i \in 1..MaxInFlight |-> Idle]
    /\ created = 0
    /\ issued = 0
    /\ deliveries = 0
    /\ notified = <<>>
    /\ \E v \in IdStrings : probe = [value |-> v]
    /\ seeded = NotSeeded
    /\ highlightTerm = NoHighlight
    /\ evidence = NoHighlight
    /\ activeChapterId = ""
    /\ loads = <<>>
    /\ ev = [kind |-> "mount"]

(* hashOffset(value) on the id string.                                      *)
HashId ==
    /\ ~seeded.done
    /\ seeded' = [done |-> TRUE,
                  hash |-> HashAcc(probe.value, 0),
                  offset |-> hashOffset(probe.value)]
    /\ ev' = [kind |-> "hash"]
    /\ UNCHANGED <<propVars, graphSnapshotRef, graphReady, viewVars, forceVars, callVars,
                   notified, probe, pageVars>>

NextHash == HashId

SpecHash == InitHash /\ [][NextHash]_vars


-----------------------------------------------------------------------------
(* Properties of the synchronizer, checked under Spec.                      *)

(* The step is the success continuation of the call in slot i.              *)
Fulfils(i) ==
    /\ calls[i] # Idle
    /\ calls'[i] = Idle
    /\ ev'.kind = "settled"
    /\ ev'.endpoint = "ok"

(* The step is the failure of the collaborator call in slot i.              *)
Fails(i) ==
    /\ calls[i] # Idle
    /\ calls'[i] = Idle
    /\ ev'.kind = "settled"
    /\ ev'.endpoint = "failed"

(* The names the snapshot's nodes with this id carry.                       *)
NamesOfId(snap, id) ==
    { SnapNodes(snap)[k].name : k \in { j \in 1..Len(SnapNodes(snap)) : SnapNodes(snap)[j].id = id } }

(* C1: when an update of a node succeeds and the returned name differs from *)
(* the name the snapshot had for that node, the new snapshot has the same   *)
(* edges in the same order, every source or target that equalled the old    *)
(* name now being the new name and everything else in them as it was.       *)
C1_RenameCascade ==
    [][\A i \in 1..MaxInFlight :
         (Fulfils(i) /\ calls[i].op = "update" /\ calls[i].type = "node")
         => \A old \in NamesOfId(graphSnapshotRef, calls[i].id) :
               old # calls[i].name
               => LET before == SnapEdges(graphSnapshotRef)
                      after == graphSnapshotRef'.edges
                  IN  /\ Len(after) = Len(before)
                      /\ \A k \in 1..Len(before) :
                            /\ after[k].source = (IF before[k].source = old
                                                  THEN calls[i].name ELSE before[k].source)
                            /\ after[k].target = (IF before[k].target = old
                                                  THEN calls[i].name ELSE before[k].target)
                            /\ after[k].id = before[k].id
                            /\ after[k].evidence = before[k].evidence]_vars

(* A rename of n1 from "A" to "C" has rewritten the source of e1 and left   *)
(* its target alone.                                                        *)
C1_Witness ==
    /\ ev.kind = "settled"
    /\ ev.endpoint = "ok"
    /\ \E k \in 1..Len(graphSnapshotRef.nodes) :
          graphSnapshotRef.nodes[k].id = "n1" /\ graphSnapshotRef.nodes[k].name = "C"
    /\ \E k \in 1..Len(graphSnapshotRef.edges) :
          /\ graphSnapshotRef.edges[k].id = "e1"
          /\ graphSnapshotRef.edges[k].source = "C"
          /\ graphSnapshotRef.edges[k].target = "B"

(* C2: when the removal of a node succeeds, the new snapshot has neither    *)
(* that node nor any edge whose source or target is its name, and keeps     *)
(* every other node and edge in order.                                      *)
C2_DeleteCascade ==
    [][\A i \in 1..MaxInFlight :
         (Fulfils(i) /\ calls[i].op = "removeItem" /\ calls[i].type = "node")
         => LET gone == NamesOfId(graphSnapshotRef, calls[i].id)
                keptNode == { n \in Range(SnapNodes(graphSnapshotRef)) : n.id # calls[i].id }
                keptEdge == { e \in Range(SnapEdges(graphSnapshotRef)) :
                                e.source \notin gone /\ e.target \notin gone }
            IN  /\ graphSnapshotRef'.nodes = FilterSeq(SnapNodes(graphSnapshotRef), keptNode)
                /\ graphSnapshotRef'.edges = FilterSeq(SnapEdges(graphSnapshotRef), keptEdge)
                /\ \A k \in 1..Len(graphSnapshotRef'.nodes) :
                      graphSnapshotRef'.nodes[k].id # calls[i].id
                /\ \A k \in 1..Len(graphSnapshotRef'.edges) :
                      /\ graphSnapshotRef'.edges[k].source \notin gone
                      /\ graphSnapshotRef'.edges[k].target \notin gone]_vars

(* The removal of n2 ("B") from chapter c1 has taken the edge A -> B along.  *)
C2_Witness ==
    /\ ev.kind = "settled"
    /\ ev.endpoint = "ok"
    /\ graph.chapter_id = "c1"
    /\ graphSnapshotRef.chapter_id = "c1"
    /\ NodeIds(graphSnapshotRef.nodes) = {"n1"}
    /\ graphSnapshotRef.edges = <<>>

(* C3: when the collaborator call of an add, update or removeItem fails,    *)
(* the caller's promise rejects, the snapshot and the rendered data are     *)
(* what they were, and no graph-change notification is emitted.             *)
C3_FailureLeavesSnapshot ==
    [][\A i \in 1..MaxInFlight :
         Fails(i)
         => /\ ev'.result = "rejected"
            /\ graphSnapshotRef' = graphSnapshotRef
            /\ g6' = g6
            /\ notified' = <<>>]_vars

(* A call against a loaded chapter has failed.                              *)
C3_Witness ==
    /\ ev.kind = "settled"
    /\ ev.endpoint = "failed"
    /\ ev.result = "rejected"
    /\ ~graphSnapshotRef.isNull
    /\ issued > 0

(* C4: issuing a call changes neither the snapshot nor the rendered data    *)
(* nor notifies; the snapshot changes only when a graph is delivered or a   *)
(* collaborator call has succeeded, and a notification is emitted only in   *)
(* the latter step.                                                         *)
C4_NothingBeforeConfirmation ==
    [][/\ ev'.kind = "call" => (graphSnapshotRef' = graphSnapshotRef /\ g6' = g6 /\ notified' = <<>>)
       /\ graphSnapshotRef' # graphSnapshotRef
          => (ev'.kind = "deliver" \/ (ev'.kind = "settled" /\ ev'.endpoint = "ok"))
       /\ notified' # <<>> => (ev'.kind = "settled" /\ ev'.endpoint = "ok")]_vars

(* A call is in flight and the snapshot is still the delivered graph.       *)
C4_Witness ==
    /\ ev.kind = "call"
    /\ ev.result = "pending"
    /\ \E i \in 1..MaxInFlight : calls[i] # Idle /\ calls[i].op = "add"
    /\ ~graph.isNull
    /\ graphSnapshotRef = graph

(* C5: a call made while the component has no book id or no chapter id      *)
(* returns without an error, invokes no collaborator endpoint, changes      *)
(* neither the snapshot nor the rendered data and emits no notification.    *)
C5_NoContextNoOp ==
    [][(ev'.kind = "call" /\ (bookId = "" \/ chapterId = ""))
       => /\ ev'.result = "returned"
          /\ calls' = calls
          /\ issued' = issued
          /\ graphSnapshotRef' = graphSnapshotRef
          /\ g6' = g6
          /\ notified' = <<>>]_vars

(* A call has returned at once with a book id but no chapter id.            *)
C5_Witness ==
    /\ ev.kind = "call"
    /\ ev.result = "returned"
    /\ bookId # ""
    /\ chapterId = ""
    /\ issued = 0

(* C6: every edge the renderer holds has a source and a target that are     *)
(* ids of nodes the renderer holds.                                         *)
C6_RenderedEdgesResolve ==
    \A k \in 1..Len(g6.edges) :
       /\ g6.edges[k].source \in { g6.nodes[j].id : j \in 1..Len(g6.nodes) }
       /\ g6.edges[k].target \in { g6.nodes[j].id : j \in 1..Len(g6.nodes) }

(* C7: once the renderer has been started on the graph of a chapter, no     *)
(* step that leaves the delivered graph's chapter id the same registers     *)
(* another force run, clears the settle flag or leaves the preset layout.   *)
C7_NoRestartInChapter ==
    [][(graphReady /\ graph.chapter_id # "" /\ graph'.chapter_id = graph.chapter_id)
       => /\ listeners' <= listeners
          /\ layoutStoppedRef => layoutStoppedRef'
          /\ layoutType = "preset" => layoutType' = "preset"]_vars

(* Node indices an edge joins when its endpoints are matched by node name.  *)
Linked(kg, i, j) ==
    \E k \in 1..Len(kg.edges) :
       \/ kg.edges[k].source = kg.nodes[i].name /\ kg.edges[k].target = kg.nodes[j].name
       \/ kg.edges[k].source = kg.nodes[j].name /\ kg.edges[k].target = kg.nodes[i].name

(* The node indices a path of such edges reaches from the set S.            *)
RECURSIVE Reach(_, _)
Reach(kg, S) ==
    LET T == S \cup { j \in 1..Len(kg.nodes) : \E i \in S : Linked(kg, i, j) }
    IN  IF T = S THEN S ELSE Reach(kg, T)

(* C8: the clusters of a chapter graph are a partition of its nodes, and    *)
(* two nodes share a cluster exactly when a path of edges, with endpoints   *)
(* matched by node name, joins them.                                        *)
C8_ClustersArePathComponents ==
    seeded.done
    => LET kg == probe.a
           cl == seeded.clusters
           Of(i) == { k \in 1..Len(cl) : kg.nodes[i].id \in NodeIds(cl[k]) }
       IN  /\ \A i \in 1..Len(kg.nodes) : Cardinality(Of(i)) = 1
           /\ \A k \in 1..Len(cl) : cl[k] # <<>> /\ NodeIds(cl[k]) \subseteq NodeIds(kg.nodes)
           /\ \A i, j \in 1..Len(kg.nodes) : (Of(i) = Of(j)) <=> (j \in Reach(kg, {i}))

(* C9 as stated: two chapter graphs with the same set of node ids get the   *)
(* same seed coordinates.                                                   *)
C9_SameIdsSameCoordinates ==
    (seeded.done /\ NodeIds(probe.a.nodes) = NodeIds(probe.b.nodes)) => seeded.a = seeded.b

(* The two graphs list the same ids under the same names in the same order  *)
(* and have the same edge endpoints in the same order.                      *)
SameStructure(a, b) ==
    /\ Len(a.nodes) = Len(b.nodes)
    /\ \A i \in 1..Len(a.nodes) : a.nodes[i].id = b.nodes[i].id /\ a.nodes[i].name = b.nodes[i].name
    /\ Len(a.edges) = Len(b.edges)
    /\ \A k \in 1..Len(a.edges) :
          a.edges[k].source = b.edges[k].source /\ a.edges[k].target = b.edges[k].target

(* C9: two chapter graphs that list the same node ids and names in the same *)
(* order and have the same edge endpoints get the same seed coordinates for *)
(* every node id, whatever their node types, edge ids, evidence and chapter *)
(* ids are.                                                                 *)
C9_SeedDeterminedByStructure ==
    (seeded.done /\ SameStructure(probe.a, probe.b))
    => /\ seeded.a = seeded.b
       /\ DOMAIN seeded.a = NodeIds(probe.a.nodes)

(* Three nodes in two clusters were laid out twice, under different types,  *)
(* to the same coordinates.                                                 *)
C9_Witness ==
    /\ seeded.done
    /\ SameStructure(probe.a, probe.b)
    /\ Len(probe.a.nodes) = 3
    /\ Len(seeded.clusters) = 2
    /\ probe.a.nodes[1].type # probe.b.nodes[1].type
    /\ probe.a.chapter_id # probe.b.chapter_id
    /\ seeded.a = seeded.b

(* C10: a transform event at a zoom scale below 0.5 sets the level of       *)
(* detail to hidden, one between 0.5 and 0.8 to simple, and one above 0.8   *)
(* to full, whatever the level was before.                                  *)
C10_LodByZoom ==
    [][ev'.kind = "transform"
       => /\ ev'.scale < 50 => lodLevelRef' = "hidden"
          /\ (ev'.scale > 50 /\ ev'.scale < 80) => lodLevelRef' = "simple"
          /\ ev'.scale > 80 => lodLevelRef' = "full"]_vars

(* A zoom to 0.6 has taken the level of detail from hidden to simple, with  *)
(* a chapter on screen.                                                     *)
C10_Witness ==
    /\ ev.kind = "transform"
    /\ ev.scale = 60
    /\ lodLevelRef = "simple"
    /\ Len(g6.nodes) > 0
    /\ \A k \in 1..Len(g6.nodes) : g6.nodes[k].lod = "simple"

(* C11: a transform event at a zoom scale of exactly 0.5 sets the level of  *)
(* detail to simple, and one at exactly 0.8 sets it to full.                *)
C11_ThresholdHigherBand ==
    [][ev'.kind = "transform"
       => /\ ev'.scale = 50 => lodLevelRef' = "simple"
          /\ ev'.scale = 80 => lodLevelRef' = "full"]_vars

(* C12: every step that loads a graph into the view, a delivery of the      *)
(* graph prop or the start of the renderer on the stored graph, ends with   *)
(* the level of detail full and every rendered node's lod full.             *)
C12_LoadForcesFull ==
    [][(ev'.kind = "deliver" \/ ev'.kind = "ready")
       => /\ lodLevelRef' = "full"
          /\ \A k \in 1..Len(g6'.nodes) : g6'.nodes[k].lod = "full"]_vars

(* A chapter was delivered while the level of detail was hidden, and its    *)
(* nodes are shown in full.                                                 *)
C12_Witness ==
    /\ ev.kind = "deliver"
    /\ ev.lod = "hidden"
    /\ graph.chapter_id = "c2"
    /\ lodLevelRef = "full"
    /\ Len(g6.nodes) = 2
    /\ \A k \in 1..Len(g6.nodes) : g6.nodes[k].lod = "full"

(* The step delivers chapter X to the renderer while the cache holds the    *)
(* seed of another chapter and a seed of X has been cached before.          *)
Revisits(X) ==
    /\ ev'.kind = "deliver"
    /\ graphReady
    /\ graph'.chapter_id = X
    /\ X \in DOMAIN seedLog
    /\ ~layoutSeedRef.isNull
    /\ layoutSeedRef.chapterId # X

(* C13 as stated: re-visiting chapter X after another chapter leaves every  *)
(* node of X that had a cached seed position with that position.            *)
C13_RevisitReusesCache ==
    [][\A X \in {"c1", "c2"} :
         Revisits(X)
         => \A id \in DOMAIN seedLog[X].positions :
               /\ id \in DOMAIN layoutSeedRef'.positions
               /\ layoutSeedRef'.positions[id] = seedLog[X].positions[id]]_vars

(* C13: the cache holds one chapter.  Re-visiting chapter X after another   *)
(* chapter puts a grid for X's delivered graph in the cache, with a         *)
(* position for each of its node ids and no other; when that graph is the   *)
(* one X's earlier seed was built from, the positions are the earlier ones. *)
C13_RevisitRecomputes ==
    [][\A X \in {"c1", "c2"} :
         Revisits(X)
         => /\ layoutSeedRef'.chapterId = X
            /\ DOMAIN layoutSeedRef'.positions = NodeIds(graph'.nodes)
            /\ seedLog[X].kg = graph' => layoutSeedRef'.positions = seedLog[X].positions]_vars

(* Chapter c1 was seeded, left for c2 and delivered again with a third      *)
(* node: its seed was built a second time and covers the new node.          *)
C13_Witness ==
    /\ ev.kind = "deliver"
    /\ graph.chapter_id = "c1"
    /\ "c2" \in DOMAIN seedLog
    /\ "c1" \in DOMAIN seedLog
    /\ seedLog["c1"].writes = 2
    /\ layoutSeedRef.chapterId = "c1"
    /\ DOMAIN layoutSeedRef.positions = {"n1", "n2", "x1"}

(* C14: no completion of an add, update or removeItem, successful or not,   *)
(* changes the cached seed.                                                 *)
C14_MutationKeepsSeed ==
    [][\A i \in 1..MaxInFlight :
         (Fulfils(i) \/ Fails(i)) => layoutSeedRef' = layoutSeedRef]_vars

(* C15: when an add of a node succeeds while the renderer shows a chapter   *)
(* whose layout is frozen, every node the renderer did not hold before is   *)
(* handed over with a defined position, the one the seed cache has for it.  *)
C15_NewNodePlacedFromSeed ==
    [][\A i \in 1..MaxInFlight :
         (/\ Fulfils(i) /\ calls[i].op = "add" /\ calls[i].type = "node"
          /\ graphReady /\ layoutStoppedRef /\ layoutType = "preset")
         => \A k \in 1..Len(g6'.nodes) :
               g6'.nodes[k].id \notin { g6.nodes[j].id : j \in 1..Len(g6.nodes) }
               => /\ g6'.nodes[k].pos.defined
                  /\ g6'.nodes[k].id \in DOMAIN layoutSeedRef'.positions
                  /\ g6'.nodes[k].pos.x = layoutSeedRef'.positions[g6'.nodes[k].id].x
                  /\ g6'.nodes[k].pos.y = layoutSeedRef'.positions[g6'.nodes[k].id].y]_vars

(* C16: when an add, update or removeItem succeeds while the renderer shows *)
(* a graph, every node the renderer holds a finite position for, and that   *)
(* is still in the graph afterwards, is handed over with that position.     *)
C16_MutationKeepsPositions ==
    [][\A i \in 1..MaxInFlight :
         (Fulfils(i) /\ graphReady)
         => \A j \in 1..Len(g6.nodes) : \A k \in 1..Len(g6'.nodes) :
               (g6.nodes[j].id = g6'.nodes[k].id /\ g6.nodes[j].pos.defined)
               => g6'.nodes[k].pos = g6.nodes[j].pos]_vars

(* A node was added to chapter c1 after the force layout had moved n1 off   *)
(* its seed position, and n1 is still where the layout left it.             *)
C16_Witness ==
    /\ ev.kind = "settled"
    /\ ev.endpoint = "ok"
    /\ graphReady
    /\ layoutStoppedRef
    /\ layoutSeedRef.chapterId = "c1"
    /\ "n1" \in DOMAIN layoutSeedRef.positions
    /\ \E k \in 1..Len(g6.nodes) : g6.nodes[k].id = "x1"
    /\ \E k \in 1..Len(g6.nodes) :
          /\ g6.nodes[k].id = "n1"
          /\ g6.nodes[k].pos.defined
          /\ g6.nodes[k].pos.x = layoutSeedRef.positions["n1"].x + 5000

(* At most one target: whenever the evidence state is set, the highlight    *)
(* term is that same text.                                                  *)
OneTarget == evidence.isNull \/ highlightTerm = evidence

(* C17 as stated: after every selection there is at most one highlight      *)
(* target; a clicked node's name becomes the target and the evidence state  *)
(* is cleared; any clicked edge's evidence text becomes the target.         *)
C17_SelectionExclusive ==
    [][/\ OneTarget'
       /\ (ev'.kind = "click" /\ ev'.element = "node")
          => (Target(highlightTerm') = ev'.text /\ Target(evidence') = "")
       /\ (ev'.kind = "click" /\ ev'.element = "edge")
          => (Target(highlightTerm') = ev'.text /\ Target(evidence') = ev'.text)]_vars

(* C17: after every selection there is at most one highlight target; a      *)
(* clicked node with a name makes the name the target and clears the        *)
(* evidence state; a clicked edge with evidence text makes that text the    *)
(* target; a click on a node without name or an edge without evidence text  *)
(* leaves the target as it was.                                             *)
C17_SelectionOfLabelled ==
    [][/\ OneTarget'
       /\ (ev'.kind = "click" /\ ev'.element = "node" /\ ev'.text # "")
          => (highlightTerm' = Text(ev'.text) /\ evidence' = NoHighlight)
       /\ (ev'.kind = "click" /\ ev'.element = "edge" /\ ev'.text # "")
          => (highlightTerm' = Text(ev'.text) /\ evidence' = Text(ev'.text))
       /\ (ev'.kind = "click" /\ ev'.text = "")
          => UNCHANGED <<highlightTerm, evidence>>]_vars

(* An edge with evidence text was clicked while a node name was the target, *)
(* and the evidence text replaced it.                                       *)
C17_Witness ==
    /\ ev.kind = "click"
    /\ ev.element = "edge"
    /\ ev.text = "p"
    /\ ev.was = Text("A")
    /\ highlightTerm = Text("p")
    /\ evidence = Text("p")

(* C18: a call that succeeds emits exactly one graph-change notification,   *)
(* its payload is the patched snapshot now stored in graphSnapshotRef, and  *)
(* the renderer, when there is one, is handed the data built from that same *)
(* snapshot; a failed call, a call without context and the issuing of a     *)
(* call emit none.                                                          *)
C18_OneNotificationPerSuccess ==
    [][/\ \A i \in 1..MaxInFlight :
            /\ Fulfils(i)
               => /\ notified' = <<graphSnapshotRef'>>
                  /\ graphSnapshotRef' = Patch(graphSnapshotRef, calls[i], created)
                  /\ graphReady => g6' = toG6Data(graphSnapshotRef', layoutSeedRef, graphReady, g6)
            /\ Fails(i) => notified' = <<>>
       /\ ev'.kind = "call" => notified' = <<>>]_vars

(* A node was created while the renderer was up: one notification carries   *)
(* the stored snapshot with the new node, and the renderer shows it.        *)
C18_Witness ==
    /\ ev.kind = "settled"
    /\ ev.endpoint = "ok"
    /\ graphReady
    /\ notified = <<graphSnapshotRef>>
    /\ \E k \in 1..Len(graphSnapshotRef.nodes) : graphSnapshotRef.nodes[k].id = "x1"
    /\ \E k \in 1..Len(g6.nodes) : g6.nodes[k].id = "x1"

(* The call in slot i was issued under another chapter than the snapshot's. *)
Late(i) ==
    /\ calls[i] # Idle
    /\ ~graphSnapshotRef.isNull
    /\ calls[i].chapter # graphSnapshotRef.chapter_id

(* C19: a new chapter graph cancels no call in flight; when a call issued   *)
(* under chapter A succeeds after the snapshot became chapter B's, its      *)
(* patch is applied to B's nodes and edges (an add keeps all of them and    *)
(* appends the created element), the result is stored under A's chapter id  *)
(* and one notification carries it.                                         *)
C19_LateResponsePatchesCurrent ==
    [][/\ ev'.kind = "deliver" => calls' = calls
       /\ \A i \in 1..MaxInFlight :
            (Late(i) /\ Fulfils(i))
            => /\ graphSnapshotRef' = Patch(graphSnapshotRef, calls[i], created)
               /\ graphSnapshotRef'.chapter_id = calls[i].chapter
               /\ notified' = <<graphSnapshotRef'>>
               /\ (calls[i].op = "add" /\ calls[i].type = "node")
                  => /\ Len(graphSnapshotRef'.nodes) = Len(graphSnapshotRef.nodes) + 1
                     /\ SubSeq(graphSnapshotRef'.nodes, 1, Len(graphSnapshotRef.nodes))
                           = graphSnapshotRef.nodes
                     /\ graphSnapshotRef'.edges = graphSnapshotRef.edges]_vars

(* The page shows chapter c2; an answer to a call made under c1 arrived     *)
(* afterwards: the snapshot is labelled c1, holds c2's node m1 and the      *)
(* created node, and was notified.                                          *)
C19_Witness ==
    /\ ev.kind = "settled"
    /\ ev.endpoint = "ok"
    /\ graph.chapter_id = "c2"
    /\ graphSnapshotRef.chapter_id = "c1"
    /\ \E k \in 1..Len(graphSnapshotRef.nodes) : graphSnapshotRef.nodes[k].id = "m1"
    /\ \E k \in 1..Len(graphSnapshotRef.nodes) : graphSnapshotRef.nodes[k].id = "x1"
    /\ notified = <<graphSnapshotRef>>

(* C20: no add of a node with an empty name reaches the createNode          *)
(* endpoint: no such call is ever in flight, and the snapshot never holds a *)
(* node created without a name.                                             *)
C20_EmptyNameRejected ==
    /\ \A i \in 1..MaxInFlight :
          calls[i] # Idle
          => ~(calls[i].op = "add" /\ calls[i].type = "node" /\ calls[i].name = "")
    /\ \A k \in 1..Len(SnapNodes(graphSnapshotRef)) :
          SnapNodes(graphSnapshotRef)[k].name # ""

(* The canvas center, in thousandths.                                       *)
Center == (boardSize * Scale) \div 2

(* The only node's id of a one-node chapter graph.                          *)
SoloId(kg) == kg.nodes[1].id

(* C21 as stated: the only node of a chapter graph is placed at the canvas  *)
(* center (boardSize/2, boardSize/2), whatever its id.                      *)
C21_SoloAtCenter ==
    seeded.done
    => /\ seeded.a[SoloId(probe.a)] = [x |-> Center, y |-> Center]
       /\ seeded.b[SoloId(probe.b)] = [x |-> Center, y |-> Center]

(* C21: the only node of a chapter graph is placed at the canvas center     *)
(* displaced by six times the hash offsets of its id (x) and of its id      *)
(* followed by "y" (y); two one-node graphs whose nodes have the same id    *)
(* get the same coordinate, whatever the node's name and edges.             *)
C21_SoloAtCenterPlusJitter ==
    seeded.done
    => /\ DOMAIN seeded.a = {SoloId(probe.a)}
       /\ seeded.a[SoloId(probe.a)] =
             [x |-> Center + 6 * hashOffset(IdCodes(SoloId(probe.a))),
              y |-> Center + 6 * hashOffset(Append(IdCodes(SoloId(probe.a)), 121))]
       /\ SoloId(probe.a) = SoloId(probe.b)
          => seeded.a[SoloId(probe.a)] = seeded.b[SoloId(probe.b)]

(* Two one-node graphs with the same id but different names and edges were  *)
(* laid out, and the node is off the exact center.                          *)
C21_Witness ==
    /\ seeded.done
    /\ SoloId(probe.a) = SoloId(probe.b)
    /\ probe.a.nodes[1].name # probe.b.nodes[1].name
    /\ probe.a.edges # probe.b.edges
    /\ seeded.a[SoloId(probe.a)].x # Center

(* C22: for every id string hashOffset returns a value in [-1, 1] (in       *)
(* thousandths: between -Scale and Scale), also when the 32-bit accumulator *)
(* has wrapped or is negative.                                              *)
C22_OffsetInUnitRange ==
    seeded.done => (seeded.offset >= -Scale /\ seeded.offset <= Scale)

(* const cols = Math.ceil(Math.sqrt(Math.max(1, groupList.length)))         *)
GridCols(clusters) == CeilSqrt(Max(1, Len(clusters)))

(* const rows = Math.ceil(count / cols)                                     *)
GridRows(clusters) == CeilDiv(Max(1, Len(clusters)), GridCols(clusters))

(* Math.max(280, (canvasWidth - padding * 2) / cols), in thousandths.       *)
CellWidth(clusters) ==
    Max(280 * Scale, ((boardSize - padding * 2) * Scale) \div GridCols(clusters))

(* Math.max(240, (canvasHeight - padding * 2) / rows), in thousandths.      *)
CellHeight(clusters) ==
    Max(240 * Scale, ((boardSize - padding * 2) * Scale) \div GridRows(clusters))

(* The sub-grid point of a node: its seed position without the jitter.      *)
SubGridPoint(positions, id) ==
    [x |-> positions[id].x - 6 * hashOffset(IdCodes(id)),
     y |-> positions[id].y - 6 * hashOffset(Append(IdCodes(id), 121))]

(* The point lies in the grid cell of the cluster with index idx.           *)
InCell(clusters, idx, p) ==
    LET left == padding * Scale + (idx % GridCols(clusters)) * CellWidth(clusters)
        top == padding * Scale + (idx \div GridCols(clusters)) * CellHeight(clusters)
    IN  /\ left <= p.x /\ p.x <= left + CellWidth(clusters)
        /\ top <= p.y /\ p.y <= top + CellHeight(clusters)

(* C23 as stated: each component has its own cell of the grid, and the      *)
(* sub-grid points of its nodes all lie in that cell, for every number and  *)
(* size of components.                                                      *)
C23_SubGridInsideCell ==
    seeded.done
    => /\ Len(seeded.clusters) <= GridCols(seeded.clusters) * GridRows(seeded.clusters)
       /\ \A idx \in 1..Len(seeded.clusters) :
             \A k \in 1..Len(seeded.clusters[idx]) :
                InCell(seeded.clusters, idx - 1,
                       SubGridPoint(seeded.a, seeded.clusters[idx][k].id))

(* C23: each component has its own cell of the grid, and the sub-grid       *)
(* points of a component of at most 9 nodes all lie in that cell, for every *)
(* number of components.                                                    *)
C23_SmallSubGridInsideCell ==
    seeded.done
    => /\ Len(seeded.clusters) <= GridCols(seeded.clusters) * GridRows(seeded.clusters)
       /\ \A idx \in 1..Len(seeded.clusters) :
             Len(seeded.clusters[idx]) <= 9
             => \A k \in 1..Len(seeded.clusters[idx]) :
                   InCell(seeded.clusters, idx - 1,
                          SubGridPoint(seeded.a, seeded.clusters[idx][k].id))

(* Seventeen components, the first a chain of nine nodes on a 3 x 3         *)
(* sub-grid, were laid out on a grid of 5 columns and 4 rows.               *)
C23_Witness ==
    /\ seeded.done
    /\ Len(seeded.clusters) = 17
    /\ Len(seeded.clusters[1]) = 9
    /\ GridCols(seeded.clusters) = 5
    /\ GridRows(seeded.clusters) = 4
    /\ SubGridPoint(seeded.a, "g09").x - SubGridPoint(seeded.a, "g01").x = 2 * 150 * Scale

(* C24: the settle flag is set and the layout put on preset only by a step  *)
(* that handles a settled signal, and the first settled signal after a      *)
(* simulation was started leaves the flag set and the layout on preset.     *)
C24_FreezeOnlyOnSettled ==
    [][/\ (layoutStoppedRef' /\ ~layoutStoppedRef) => ev'.kind = "afterlayout"
       /\ (layoutType' = "preset" /\ layoutType # "preset") => ev'.kind = "afterlayout"
       /\ (ev'.kind = "afterlayout" /\ listeners > 0)
          => layoutStoppedRef' /\ layoutType' = "preset" /\ listeners' = 0]_vars

(* A settled signal froze the simulation of a chapter that was delivered    *)
(* after an earlier chapter had been frozen and left.                       *)
C24_Witness ==
    /\ ev.kind = "afterlayout"
    /\ layoutStoppedRef
    /\ layoutType = "preset"
    /\ lastChapterIdRef = "c2"
    /\ "c1" \in DOMAIN seedLog
    /\ deliveries >= 2

(* The names of a snapshot's nodes are pairwise different and every edge    *)
(* names two of them.                                                       *)
SoundNames(snap) ==
    /\ \A j, k \in 1..Len(SnapNodes(snap)) :
          SnapNodes(snap)[j].name = SnapNodes(snap)[k].name => j = k
    /\ \A k \in 1..Len(SnapEdges(snap)) :
          /\ SnapEdges(snap)[k].source \in { n.name : n \in Range(SnapNodes(snap)) }
          /\ SnapEdges(snap)[k].target \in { n.name : n \in Range(SnapNodes(snap)) }

(* C25: from a snapshot with unique names whose edges all name existing     *)
(* nodes, a successful rename of a node to a name no node has, or a         *)
(* successful node deletion, leaves such a snapshot; after the rename every *)
(* edge resolves through the name-to-id map to the node ids it resolved to  *)
(* before.                                                                  *)
C25_NameReferencesSurvive ==
    [][\A i \in 1..MaxInFlight :
         (/\ Fulfils(i)
          /\ calls[i].type = "node"
          /\ SoundNames(graphSnapshotRef)
          /\ \/ calls[i].op = "removeItem"
             \/ /\ calls[i].op = "update"
                /\ calls[i].name \notin { n.name : n \in Range(SnapNodes(graphSnapshotRef)) })
         => /\ SoundNames(graphSnapshotRef')
            /\ calls[i].op = "update"
               => /\ Len(graphSnapshotRef'.edges) = Len(SnapEdges(graphSnapshotRef))
                  /\ \A k \in 1..Len(SnapEdges(graphSnapshotRef)) :
                        /\ G6Edge(graphSnapshotRef'.nodes, graphSnapshotRef'.edges[k], k - 1).source
                           = G6Edge(SnapNodes(graphSnapshotRef), SnapEdges(graphSnapshotRef)[k], k - 1).source
                        /\ G6Edge(graphSnapshotRef'.nodes, graphSnapshotRef'.edges[k], k - 1).target
                           = G6Edge(SnapNodes(graphSnapshotRef), SnapEdges(graphSnapshotRef)[k], k - 1).target]_vars

(* Node n2 was renamed from "B" to "C", which took the edge A -> B along,   *)
(* and then n1 was deleted together with that edge.                         *)
C25_Witness ==
    /\ ev.kind = "settled"
    /\ ev.endpoint = "ok"
    /\ issued = 2
    /\ graphSnapshotRef.chapter_id = "c1"
    /\ graphSnapshotRef.nodes = <<Node("n2", "C", "T")>>
    /\ graphSnapshotRef.edges = <<>>

(* The indices of the snapshot's edges rendered under the identity id.       *)
RenderedAs(snap, id) ==
    { k \in 1..Len(SnapEdges(snap)) : RenderedEdgeId(SnapEdges(snap)[k], k - 1) = id }

(* C26: when removeItem('edge', id) succeeds for the identity id under      *)
(* which one edge of the snapshot is rendered, the new snapshot is the old  *)
(* one without that edge: the same nodes, and the other edges in order.     *)
C26_RemoveEdgeByRenderedId ==
    [][\A i \in 1..MaxInFlight :
         (/\ Fulfils(i)
          /\ calls[i].op = "removeItem"
          /\ calls[i].type = "edge"
          /\ Cardinality(RenderedAs(graphSnapshotRef, calls[i].id)) = 1)
         => LET k == CHOOSE j \in RenderedAs(graphSnapshotRef, calls[i].id) : TRUE
                before == SnapEdges(graphSnapshotRef)
            IN  /\ graphSnapshotRef'.nodes = SnapNodes(graphSnapshotRef)
                /\ graphSnapshotRef'.edges
                   = SubSeq(before, 1, k - 1) \o SubSeq(before, k + 1, Len(before))]_vars

(* C27: the level of detail stored on every rendered node is the active    *)
(* band, after every load, transform and mutation.                          *)
C27_LodMatchesBand ==
    \A k \in 1..Len(g6.nodes) : g6.nodes[k].lod = lodLevelRef

(* C28: a successful add or update patches the snapshot as it is when the   *)
(* call completes: an add appends its entity, once and under an id no       *)
(* entity had, to all the nodes and edges that are there, and an update     *)
(* keeps every node and every edge, the entity with its id replaced; so     *)
(* what calls that completed earlier did is kept, in every completion order. *)
C28_NoLostPatch ==
    [][\A i \in 1..MaxInFlight :
         Fulfils(i)
         => LET nodes == SnapNodes(graphSnapshotRef)
                edges == SnapEdges(graphSnapshotRef)
            IN  /\ (calls[i].op = "add" /\ calls[i].type = "node")
                   => /\ Len(graphSnapshotRef'.nodes) = Len(nodes) + 1
                      /\ SubSeq(graphSnapshotRef'.nodes, 1, Len(nodes)) = nodes
                      /\ graphSnapshotRef'.nodes[Len(nodes) + 1].name = calls[i].name
                      /\ graphSnapshotRef'.nodes[Len(nodes) + 1].id \notin NodeIds(nodes)
                      /\ graphSnapshotRef'.edges = edges
                /\ (calls[i].op = "add" /\ calls[i].type = "edge")
                   => /\ Len(graphSnapshotRef'.edges) = Len(edges) + 1
                      /\ SubSeq(graphSnapshotRef'.edges, 1, Len(edges)) = edges
                      /\ graphSnapshotRef'.edges[Len(edges) + 1].source = calls[i].source
                      /\ graphSnapshotRef'.edges[Len(edges) + 1].target = calls[i].target
                      /\ graphSnapshotRef'.nodes = nodes
                /\ calls[i].op = "update"
                   => /\ Len(graphSnapshotRef'.nodes) = Len(nodes)
                      /\ Len(graphSnapshotRef'.edges) = Len(edges)
                      /\ \A k \in 1..Len(nodes) :
                            IF calls[i].type = "node" /\ nodes[k].id = calls[i].id
                            THEN /\ graphSnapshotRef'.nodes[k].id = calls[i].id
                                 /\ graphSnapshotRef'.nodes[k].name = calls[i].name
                            ELSE graphSnapshotRef'.nodes[k] = nodes[k]
                      /\ \A k \in 1..Len(edges) :
                            (calls[i].type = "edge" /\ edges[k].id # calls[i].id)
                            => graphSnapshotRef'.edges[k] = edges[k]]_vars

(* Two add('node') calls were made on chapter c1 and both have completed:   *)
(* the snapshot holds the chapter's two nodes and both created nodes.       *)
C28_Witness ==
    /\ ev.kind = "settled"
    /\ ev.endpoint = "ok"
    /\ issued = 2
    /\ created = 2
    /\ deliveries = 1
    /\ graphSnapshotRef.chapter_id = "c1"
    /\ [k \in 1..Len(graphSnapshotRef.nodes) |-> graphSnapshotRef.nodes[k].id]
       = <<"n1", "n2", "x1", "x2">>

(* C29: when every loadChapterData call the page started has completed     *)
(* with its graph, the graph the page holds is that of the active chapter.  *)
C29_LoadedGraphIsActive ==
    (/\ loads # <<>>
     /\ \A k \in 1..Len(loads) : loads[k].status = "done")
    => graph.chapter_id = activeChapterId

(* The simulation is frozen: the settle flag is set and the layout is on   *)
(* preset.                                                                  *)
Frozen == layoutStoppedRef /\ layoutType = "preset"

(* A renderer whose simulation is not frozen reaches the frozen state.      *)
EventuallyFrozen == (graphReady /\ ~Frozen) ~> Frozen

(* C30: when every started simulation emits its settled signal, a renderer  *)
(* whose simulation was started reaches the frozen state, and it stays      *)
(* frozen while the chapter id of the graph stays the same.                 *)
C30_FrozenUntilChapterChange ==
    /\ EventuallyFrozen
    /\ [][(Frozen /\ graph'.chapter_id = graph.chapter_id) => Frozen']_vars

=============================================================================
